---- MODULE Spec2Model ----
(***************************************************************************)
(* Playback controller of the TrackMap component                           *)
(* (src/frontend/components/TrackMap.tsx).                                 *)
(*                                                                         *)
(* The component is mounted once with an immutable telemetry array; only   *)
(* its length matters to the playback logic.  The React state is           *)
(* currentIndex and isPlaying, the ref is intervalRef, and the browser's   *)
(* table of armed repeating timers is the set timers.  Every event         *)
(* handler and every interval callback is one step: React commits the      *)
(* updates of an event before the next event is dispatched, and the        *)
(* interval callback's updater is applied to the latest state.             *)
(*                                                                         *)
(* The interval callback itself only passes an updater to setCurrentIndex,  *)
(* and React calls the updater at a later render.  Spec takes the two      *)
(* together as one step; InterleavedSpec takes them apart (TimerFire,      *)
(* Render, with queued telling that an updater waits) and lets a click or  *)
(* a slider change come in between.  It explores the interleavings in      *)
(* which at most one updater waits and a waiting updater is rendered       *)
(* before the next play.                                                   *)
(*                                                                         *)
(* lastOp, lastArg, pre and run are history variables: the last step       *)
(* taken, the raw value requested by the last slider change, the playback  *)
(* state before the last step, and the ticks counted since the last        *)
(* play (no more than length + 1 of them are counted).  They never         *)
(* influence the program's variables.                                      *)
(*                                                                         *)
(* The projection (buildNormParams, normPoint, buildPathData) and the      *)
(* progress value are computed at every render from telemetry and          *)
(* currentIndex; they are definitions over the state.  Numbers are exact   *)
(* rationals n/d: the arithmetic of the source is carried out without      *)
(* rounding, and toFixed(2) is the one place where a value is rounded.     *)
(***************************************************************************)
EXTENDS Integers, FiniteSets, Sequences, TLC

VARIABLES telemetry, telemetryLength, currentIndex, isPlaying, intervalRef,
          timers, mounted, queued, lastOp, lastArg, pre, run

vars == <<telemetry, telemetryLength, currentIndex, isPlaying, intervalRef,
          timers, mounted, queued, lastOp, lastArg, pre, run>>

\* Largest telemetry length explored.
MaxLen == 10

\* Lengths the component may be mounted with (the empty array included).
Lengths == 0..MaxLen

\* Largest number of samples of the tracks whose projection is explored.
MaxPts == 3

\* Largest number of samples of the tracks whose speeds are explored.
MaxSpd == 3

\* Positions of the samples of those tracks: they give a zero range on one
\* or both axes, either axis the larger one, and a range (7) that does not
\* divide the drawable side.
SamplePoints == {<<0, 0>>, <<7, 3>>, <<1, 3>>}

\* Speeds of the samples of the speed tracks, and speeds speedColor is
\* asked about: the recorded ones and values below and above them all.
Speeds == {90, 200, 317}

SpeedInputs == Speeds \cup {0, 400}

\* A telemetry sample.
TelemetryPoint(x, y, speed) ==
  [x_coordinate |-> x, y_coordinate |-> y, speed |-> speed]

\* The telemetry arrays of the playback specification: one per length,
\* sample i at (i, 0), every sample at speed 200.
PlaybackTracks ==
  {[i \in 1..n |-> TelemetryPoint(i, 0, 200)] : n \in Lengths}

\* The telemetry arrays of the projection specification: every non-empty
\* sequence of at most MaxPts samples at the sample points, every sample
\* at speed 200.
ProjectionTracks ==
  UNION {[1..n -> {TelemetryPoint(pt[1], pt[2], 200) : pt \in SamplePoints}] :
           n \in 1..MaxPts}

\* Positions of the samples of the tracks given to the static component:
\* the sample points and two more, one of them with negative coordinates.
StaticSamplePoints == SamplePoints \cup {<<4, 9>>, <<-3, -2>>}

\* The telemetry arrays of the static specification: every non-empty
\* sequence of at most MaxPts samples at those positions (the page renders
\* the component for a non-empty array only).
StaticTracks ==
  UNION {[1..n -> {TelemetryPoint(pt[1], pt[2], 200) :
                     pt \in StaticSamplePoints}] : n \in 1..MaxPts}

\* The telemetry arrays of the speed specification: every non-empty
\* sequence of at most MaxSpd samples, all at one position, with the speeds
\* of Speeds.
SpeedTracks ==
  UNION {[1..n -> {TelemetryPoint(0, 0, v) : v \in Speeds}] :
           n \in 1..MaxSpd}

\* Drawing squares (side, padding) with 0 <= padding < side/2; the first is
\* the component's own.
ViewBoxes ==
  {[size |-> 800, padding |-> 40], [size |-> 10, padding |-> 0],
   [size |-> 9, padding |-> 4]}

SIZE == 800
PADDING == 40

\* Raw values a slider change may request, inside and outside the range.
SeekInputs == {-5, 999} \cup (-1..(MaxLen + 1))

\* intervalRef.current = null
Null == 0

\* ---- Numbers: exact rationals [n, d] with d > 0, in lowest terms ----

Abs(i) == IF i < 0 THEN -i ELSE i

RECURSIVE GCD(_, _)
GCD(a, b) == IF b = 0 THEN a ELSE GCD(b, a % b)

\* The rational n/d (d # 0) in lowest terms.
Rat(n, d) ==
  LET g == GCD(Abs(n), Abs(d))
      sgn == IF d < 0 THEN -1 ELSE 1
  IN [n |-> sgn * (n \div g), d |-> sgn * (d \div g)]

Num(i) == [n |-> i, d |-> 1]
Add(a, b) == Rat(a.n * b.d + b.n * a.d, a.d * b.d)
Sub(a, b) == Rat(a.n * b.d - b.n * a.d, a.d * b.d)
Mul(a, b) == Rat(a.n * b.n, a.d * b.d)
Div(a, b) == Rat(a.n * b.d, a.d * b.n)
Leq(a, b) == a.n * b.d <= b.n * a.d

\* Math.max of two numbers.
MathMax(a, b) == IF Leq(a, b) THEN b ELSE a

\* Math.min of two numbers.
MathMin(a, b) == IF Leq(a, b) THEN a ELSE b

\* Math.round: the nearest integer, the larger one on a tie.
MathRound(q) == (2 * q.n + q.d) \div (2 * q.d)

\* Math.min(...xs) and Math.max(...xs) of a non-empty array of integers.
MinOf(xs) == CHOOSE v \in {xs[i] : i \in DOMAIN xs} :
               \A i \in DOMAIN xs : v <= xs[i]
MaxOf(xs) == CHOOSE v \in {xs[i] : i \in DOMAIN xs} :
               \A i \in DOMAIN xs : v >= xs[i]

\* a || 1 on a number: 1 when a is zero.
OrOne(a) == IF a.n = 0 THEN Num(1) ELSE a

\* x.toFixed(2): the decimal with two fraction digits nearest to x, the
\* larger one on a tie, the sign set apart; given in hundredths.
toFixed2(q) ==
  IF q.n >= 0
    THEN (2 * 100 * q.n + q.d) \div (2 * q.d)
    ELSE -((2 * 100 * (-q.n) + q.d) \div (2 * q.d))

\* The number a two-digit decimal of h hundredths denotes.
Hundredths(h) == Rat(h, 100)

\* ---- Projection ----

\* buildNormParams with the scale taken from the smaller range.
buildNormParamsMinRange(tel, viewBoxSize, padding) ==
  LET xs == [i \in DOMAIN tel |-> tel[i].x_coordinate]
      ys == [i \in DOMAIN tel |-> tel[i].y_coordinate]
      minX == MinOf(xs)
      maxX == MaxOf(xs)
      minY == MinOf(ys)
      maxY == MaxOf(ys)
      rangeX == OrOne(Num(maxX - minX))
      rangeY == OrOne(Num(maxY - minY))
      minRange == IF Leq(rangeX, rangeY) THEN rangeX ELSE rangeY
      drawable == Num(viewBoxSize - padding * 2)
      scale == Div(drawable, minRange)
      offsetX == Add(Num(padding),
                     Div(Sub(drawable, Mul(rangeX, scale)), Num(2)))
      offsetY == Add(Num(padding),
                     Div(Sub(drawable, Mul(rangeY, scale)), Num(2)))
  IN [minX |-> Num(minX), minY |-> Num(minY), scale |-> scale,
      offsetX |-> offsetX, offsetY |-> offsetY]

\* buildNormParams with the scale taken from the x range alone.
buildNormParamsXRange(tel, viewBoxSize, padding) ==
  LET xs == [i \in DOMAIN tel |-> tel[i].x_coordinate]
      ys == [i \in DOMAIN tel |-> tel[i].y_coordinate]
      minX == MinOf(xs)
      maxX == MaxOf(xs)
      minY == MinOf(ys)
      maxY == MaxOf(ys)
      rangeX == OrOne(Num(maxX - minX))
      rangeY == OrOne(Num(maxY - minY))
      drawable == Num(viewBoxSize - padding * 2)
      scale == Div(drawable, rangeX)
      offsetX == Add(Num(padding),
                     Div(Sub(drawable, Mul(rangeX, scale)), Num(2)))
      offsetY == Add(Num(padding),
                     Div(Sub(drawable, Mul(rangeY, scale)), Num(2)))
  IN [minX |-> Num(minX), minY |-> Num(minY), scale |-> scale,
      offsetX |-> offsetX, offsetY |-> offsetY]

\* buildNormParams
buildNormParams(tel, viewBoxSize, padding) ==
  LET xs == [i \in DOMAIN tel |-> tel[i].x_coordinate]
      ys == [i \in DOMAIN tel |-> tel[i].y_coordinate]
      minX == MinOf(xs)
      maxX == MaxOf(xs)
      minY == MinOf(ys)
      maxY == MaxOf(ys)
      rangeX == OrOne(Num(maxX - minX))
      rangeY == OrOne(Num(maxY - minY))
      maxRange == MathMax(rangeX, rangeY)
      drawable == Num(viewBoxSize - padding * 2)
      scale == Div(drawable, maxRange)
      offsetX == Add(Num(padding),
                     Div(Sub(drawable, Mul(rangeX, scale)), Num(2)))
      offsetY == Add(Num(padding),
                     Div(Sub(drawable, Mul(rangeY, scale)), Num(2)))
  IN [minX |-> Num(minX), minY |-> Num(minY), scale |-> scale,
      offsetX |-> offsetX, offsetY |-> offsetY]

\* normPoint
normPoint(p, params) ==
  [x |-> Add(Mul(Sub(Num(p.x_coordinate), params.minX), params.scale),
             params.offsetX),
   y |-> Add(Mul(Sub(Num(p.y_coordinate), params.minY), params.scale),
             params.offsetY)]

\* buildPathData: one command per sample, "M" for the first and "L" for the
\* others, with the projected coordinates written by toFixed(2).
buildPathData(tel, params) ==
  [i \in DOMAIN tel |->
     [cmd |-> IF i = 1 THEN "M" ELSE "L",
      x |-> toFixed2(normPoint(tel[i], params).x),
      y |-> toFixed2(normPoint(tel[i], params).y)]]

\* The values computed at each render (for a non-empty telemetry array).
normParams == buildNormParams(telemetry, SIZE, PADDING)

pathData == buildPathData(telemetry, normParams)

\* telemetry[currentIndex] ?? null; the array of the source is 0-based.
HasCurrent == currentIndex + 1 \in DOMAIN telemetry

current == telemetry[currentIndex + 1]

\* carPos computed with parameters of the samples up to the current one.
carPosFromPrefix ==
  normPoint(current,
            buildNormParams(SubSeq(telemetry, 1, currentIndex + 1),
                            SIZE, PADDING))

\* carPos (when current is not null)
carPos == normPoint(current, normParams)

\* startPos (when the array is not empty)
startPos == normPoint(telemetry[1], normParams)

\* ---- The static track map (no playback) ----

\* buildPathData of the static component: the parameters, the projection
\* and the path commands in one function.
staticBuildPathData(tel, viewBoxSize, padding) ==
  LET xs == [i \in DOMAIN tel |-> tel[i].x_coordinate]
      ys == [i \in DOMAIN tel |-> tel[i].y_coordinate]
      minX == MinOf(xs)
      maxX == MaxOf(xs)
      minY == MinOf(ys)
      maxY == MaxOf(ys)
      rangeX == OrOne(Num(maxX - minX))
      rangeY == OrOne(Num(maxY - minY))
      maxRange == MathMax(rangeX, rangeY)
      drawable == Num(viewBoxSize - padding * 2)
      scale == Div(drawable, maxRange)
      offsetX == Add(Num(padding),
                     Div(Sub(drawable, Mul(rangeX, scale)), Num(2)))
      offsetY == Add(Num(padding),
                     Div(Sub(drawable, Mul(rangeY, scale)), Num(2)))
      points == [i \in DOMAIN tel |->
                   [x |-> Add(Mul(Num(tel[i].x_coordinate - minX), scale),
                              offsetX),
                    y |-> Add(Mul(Num(tel[i].y_coordinate - minY), scale),
                              offsetY)]]
  IN [i \in DOMAIN tel |->
        [cmd |-> IF i = 1 THEN "M" ELSE "L",
         x |-> toFixed2(points[i].x),
         y |-> toFixed2(points[i].y)]]

\* pathData of the static component (its SIZE and PADDING are 800 and 40
\* too).
staticPathData == staticBuildPathData(telemetry, SIZE, PADDING)

\* The start/finish marker placed without centring the smaller axis.
staticStartMarkerNoCentre ==
  LET xs == [i \in DOMAIN telemetry |-> telemetry[i].x_coordinate]
      ys == [i \in DOMAIN telemetry |-> telemetry[i].y_coordinate]
      minX == MinOf(xs)
      maxX == MaxOf(xs)
      minY == MinOf(ys)
      maxY == MaxOf(ys)
      rangeX == OrOne(Num(maxX - minX))
      rangeY == OrOne(Num(maxY - minY))
      maxRange == MathMax(rangeX, rangeY)
      drawable == Num(SIZE - PADDING * 2)
      scale == Div(drawable, maxRange)
  IN [x |-> Add(Mul(Num(telemetry[1].x_coordinate - minX), scale),
                Num(PADDING)),
      y |-> Add(Mul(Num(telemetry[1].y_coordinate - minY), scale),
                Num(PADDING))]

\* The start/finish marker of the static component: sx and sy, computed in
\* the markup when the array is not empty.
staticStartMarker ==
  LET xs == [i \in DOMAIN telemetry |-> telemetry[i].x_coordinate]
      ys == [i \in DOMAIN telemetry |-> telemetry[i].y_coordinate]
      minX == MinOf(xs)
      maxX == MaxOf(xs)
      minY == MinOf(ys)
      maxY == MaxOf(ys)
      rangeX == OrOne(Num(maxX - minX))
      rangeY == OrOne(Num(maxY - minY))
      maxRange == MathMax(rangeX, rangeY)
      drawable == Num(SIZE - PADDING * 2)
      scale == Div(drawable, maxRange)
      offsetX == Add(Num(PADDING),
                     Div(Sub(drawable, Mul(rangeX, scale)), Num(2)))
      offsetY == Add(Num(PADDING),
                     Div(Sub(drawable, Mul(rangeY, scale)), Num(2)))
  IN [x |-> Add(Mul(Num(telemetry[1].x_coordinate - minX), scale), offsetX),
      y |-> Add(Mul(Num(telemetry[1].y_coordinate - minY), scale), offsetY)]

\* progress as idx / length.
progressOverLength ==
  IF telemetryLength > 1
    THEN Mul(Div(Num(currentIndex), Num(telemetryLength)), Num(100))
    ELSE Num(0)

\* progress, in percent
progress ==
  IF telemetryLength > 1
    THEN Mul(Div(Num(currentIndex), Num(telemetryLength - 1)), Num(100))
    ELSE Num(0)

\* ---- Speed colour ----

\* The speeds of the samples and their extremes (for a non-empty array).
speeds == [i \in DOMAIN telemetry |-> telemetry[i].speed]

minSpeed == MinOf(speeds)

maxSpeed == MaxOf(speeds)

\* The interpolation parameter without the clamp.
speedTUnclamped(speed, min, max) ==
  Div(Num(speed - min), OrOne(Num(max - min)))

\* The interpolation parameter t of speedColor.
speedT(speed, min, max) ==
  MathMax(Num(0),
          MathMin(Num(1), Div(Num(speed - min), OrOne(Num(max - min)))))

\* speedColor: the components r, g, b of the string `rgb(r,g,b)`.
speedColor(speed, min, max) ==
  LET t == speedT(speed, min, max)
  IN [r |-> MathRound(Add(Num(30), Mul(t, Num(225)))),
      g |-> MathRound(Sub(Num(120), Mul(t, Num(100)))),
      b |-> MathRound(Sub(Num(255), Mul(t, Num(230))))]

\* The colour of the speed readout (when current is not null).
currentSpeedColor == speedColor(current.speed, minSpeed, maxSpeed)

\* ---- Playback ----

\* The playback state as one value: the two useState cells, the ref and the
\* timers armed in the browser.
State ==
  [currentIndex |-> currentIndex, isPlaying |-> isPlaying,
   intervalRef |-> intervalRef, timers |-> timers]

\* clearInterval(h): disarms h; a null or unknown handle is ignored.
clearInterval(ts, h) == ts \ {h}

\* setInterval(...): a handle that no armed timer and no reference uses.
setInterval(s) ==
  CHOOSE h \in 1..(Cardinality(s.timers) + 2) :
    h \notin (s.timers \cup {s.intervalRef})

\* stopPlayback without its setIsPlaying(false).
stopPlaybackKeepsPlaying(s) ==
  [s EXCEPT !.timers = IF s.intervalRef # Null
                         THEN clearInterval(s.timers, s.intervalRef)
                         ELSE s.timers,
            !.intervalRef = Null]

\* stopPlayback that drops the handle without clearInterval.
stopPlaybackNoClear(s) ==
  [s EXCEPT !.intervalRef = Null,
            !.isPlaying = FALSE]

\* stopPlayback that also rewinds to the first sample.
stopPlaybackRewinds(s) ==
  [s EXCEPT !.timers = IF s.intervalRef # Null
                         THEN clearInterval(s.timers, s.intervalRef)
                         ELSE s.timers,
            !.intervalRef = Null,
            !.isPlaying = FALSE,
            !.currentIndex = 0]

\* stopPlayback
stopPlayback(s) ==
  [s EXCEPT !.timers = IF s.intervalRef # Null
                         THEN clearInterval(s.timers, s.intervalRef)
                         ELSE s.timers,
            !.intervalRef = Null,
            !.isPlaying = FALSE]

\* startPlayback without the test for an empty array.
startPlaybackNoEmptyTest(s) ==
  [s EXCEPT !.isPlaying = TRUE,
            !.intervalRef = setInterval(s),
            !.timers = s.timers \cup {setInterval(s)}]

\* startPlayback without its setIsPlaying(true).
startPlaybackNoFlag(s) ==
  IF telemetryLength = 0
    THEN s
    ELSE [s EXCEPT !.intervalRef = setInterval(s),
                   !.timers = s.timers \cup {setInterval(s)}]

\* startPlayback
startPlayback(s) ==
  IF telemetryLength = 0
    THEN s
    ELSE [s EXCEPT !.isPlaying = TRUE,
                   !.intervalRef = setInterval(s),
                   !.timers = s.timers \cup {setInterval(s)}]

\* Interval callback without the end-of-sequence test.
tickNoEndTest(s) ==
  [s EXCEPT !.currentIndex = s.currentIndex + 1]

\* Interval callback that wraps to the first sample at the end.
tickWraps(s) ==
  IF s.currentIndex + 1 >= telemetryLength
    THEN [s EXCEPT !.currentIndex = 0]
    ELSE [s EXCEPT !.currentIndex = s.currentIndex + 1]

\* Interval callback whose end test is off by one (next >= length - 1).
tickStopsEarly(s) ==
  IF s.currentIndex + 1 >= telemetryLength - 1
    THEN [s EXCEPT !.timers = clearInterval(s.timers, s.intervalRef),
                   !.intervalRef = Null,
                   !.isPlaying = FALSE]
    ELSE [s EXCEPT !.currentIndex = s.currentIndex + 1]

\* Interval callback that stops as soon as it stores the last index.
tickStopsOnArrival(s) ==
  IF s.currentIndex + 1 >= telemetryLength - 1
    THEN [s EXCEPT !.currentIndex =
                     IF s.currentIndex + 1 >= telemetryLength
                       THEN s.currentIndex ELSE s.currentIndex + 1,
                   !.timers = clearInterval(s.timers, s.intervalRef),
                   !.intervalRef = Null,
                   !.isPlaying = FALSE]
    ELSE [s EXCEPT !.currentIndex = s.currentIndex + 1]

\* Interval callback that holds the last index without stopping.
tickNeverStops(s) ==
  IF s.currentIndex + 1 >= telemetryLength
    THEN s
    ELSE [s EXCEPT !.currentIndex = s.currentIndex + 1]

\* The interval callback: setCurrentIndex(prev => ...)
tick(s) ==
  IF s.currentIndex + 1 >= telemetryLength
    THEN [s EXCEPT !.timers = clearInterval(s.timers, s.intervalRef),
                   !.intervalRef = Null,
                   !.isPlaying = FALSE]
    ELSE [s EXCEPT !.currentIndex = s.currentIndex + 1]

\* handlePlayPause without the restart from the beginning.
handlePlayPauseNoRestart(s) ==
  IF s.isPlaying
    THEN stopPlayback(s)
    ELSE startPlayback(s)

\* handlePlayPause with the test on isPlaying inverted.
handlePlayPauseInverted(s) ==
  IF ~s.isPlaying
    THEN stopPlayback(s)
    ELSE startPlayback(
           [s EXCEPT !.currentIndex =
              IF s.currentIndex >= telemetryLength - 1 THEN 0
              ELSE s.currentIndex])

\* handlePlayPause
handlePlayPause(s) ==
  IF s.isPlaying
    THEN stopPlayback(s)
    ELSE startPlayback(
           [s EXCEPT !.currentIndex =
              IF s.currentIndex >= telemetryLength - 1 THEN 0
              ELSE s.currentIndex])

\* A range input without min and max: the requested value as it is.
rangeValueUnbounded(v) == v

\* e.target.value of <input type="range" min={0} max={length - 1}>: the
\* element keeps its value inside [min, max], and at min when max < min.
rangeValue(v) ==
  IF telemetryLength - 1 < 0 THEN 0
  ELSE IF v < 0 THEN 0
  ELSE IF v > telemetryLength - 1 THEN telemetryLength - 1
  ELSE v

\* handleSliderChange without its stopPlayback().
handleSliderChangeNoStop(s, v) ==
  [s EXCEPT !.currentIndex = rangeValue(v)]

\* handleSliderChange
handleSliderChange(s, v) ==
  [stopPlayback(s) EXCEPT !.currentIndex = rangeValue(v)]

\* An unmount effect without the clearInterval.
unmountCleanupNoClear(s) == s

\* The unmount cleanup effect
unmountCleanup(s) ==
  [s EXCEPT !.timers = IF s.intervalRef # Null
                         THEN clearInterval(s.timers, s.intervalRef)
                         ELSE s.timers]

\* Writes a playback state back to the variables.
Commit(s) ==
  /\ currentIndex' = s.currentIndex
  /\ isPlaying' = s.isPlaying
  /\ intervalRef' = s.intervalRef
  /\ timers' = s.timers

InitWith(tracks) ==
  /\ telemetry \in tracks
  /\ telemetryLength = Len(telemetry)
  /\ currentIndex = 0
  /\ isPlaying = FALSE
  /\ intervalRef = Null
  /\ timers = {}
  /\ mounted = TRUE
  /\ queued = FALSE
  /\ lastOp = "mount"
  /\ lastArg = 0
  /\ pre = [currentIndex |-> 0, isPlaying |-> FALSE,
            intervalRef |-> Null, timers |-> {}]
  /\ run = [active |-> FALSE, k |-> 0, n |-> 0]

Init == InitWith(PlaybackTracks)

InitProjection == InitWith(ProjectionTracks)

InitSpeed == InitWith(SpeedTracks)

InitStatic == InitWith(StaticTracks)

\* A click on the play/pause button.
PlayPause ==
  /\ mounted
  /\ Commit(handlePlayPause(State))
  /\ lastOp' = IF isPlaying THEN "pause" ELSE "play"
  /\ lastArg' = 0
  /\ pre' = State
  /\ run' = IF isPlaying THEN [run EXCEPT !.active = FALSE]
            ELSE [active |-> TRUE, k |-> currentIndex, n |-> 0]
  /\ UNCHANGED <<telemetry, telemetryLength, mounted, queued>>

\* A change of the slider to a requested value.
SliderChange ==
  /\ mounted
  /\ \E v \in SeekInputs :
       /\ Commit(handleSliderChange(State, v))
       /\ lastArg' = v
  /\ lastOp' = "seek"
  /\ pre' = State
  /\ run' = [run EXCEPT !.active = FALSE]
  /\ UNCHANGED <<telemetry, telemetryLength, mounted, queued>>

\* An armed timer fires.  The browser fires a timer for as long as it is
\* armed, whether or not the component is still mounted.
Tick ==
  /\ \E t \in timers : Commit(tick(State))
  /\ lastOp' = "tick"
  /\ lastArg' = 0
  /\ pre' = State
  /\ run' = [run EXCEPT !.n = IF run.n <= telemetryLength
                              THEN run.n + 1 ELSE run.n]
  /\ UNCHANGED <<telemetry, telemetryLength, mounted, queued>>

\* The component is unmounted.
Unmount ==
  /\ mounted
  /\ mounted' = FALSE
  /\ Commit(unmountCleanup(State))
  /\ lastOp' = "unmount"
  /\ lastArg' = 0
  /\ pre' = State
  /\ run' = [run EXCEPT !.active = FALSE]
  /\ UNCHANGED <<telemetry, telemetryLength, queued>>

Next == PlayPause \/ SliderChange \/ Tick \/ Unmount

\* ---- The interval callback and its updater as two steps ----

\* An armed timer fires: the callback passes its updater to setCurrentIndex,
\* and the updater waits for the next render.
TimerFire ==
  /\ ~queued
  /\ \E t \in timers : queued' = TRUE
  /\ lastOp' = "fire"
  /\ lastArg' = 0
  /\ pre' = State
  /\ UNCHANGED <<telemetry, telemetryLength, currentIndex, isPlaying,
                 intervalRef, timers, mounted, run>>

\* A render applies the waiting updater to the state of that moment.
Render ==
  /\ queued
  /\ queued' = FALSE
  /\ Commit(tick(State))
  /\ lastOp' = "tick"
  /\ lastArg' = 0
  /\ pre' = State
  /\ run' = [run EXCEPT !.n = IF run.n <= telemetryLength
                              THEN run.n + 1 ELSE run.n]
  /\ UNCHANGED <<telemetry, telemetryLength, mounted>>

\* A click on the play/pause button.  The handler reads the isPlaying and
\* currentIndex of the last render.  A waiting updater is applied by the
\* render that follows the click (after the handler has run) or is left to
\* a later render.
PlayPauseQueued ==
  /\ mounted
  /\ isPlaying \/ ~queued
  /\ \E flush \in BOOLEAN :
       /\ Commit(IF flush /\ queued
                   THEN tick(handlePlayPause(State))
                   ELSE handlePlayPause(State))
       /\ queued' = (queued /\ ~flush)
  /\ lastOp' = IF isPlaying THEN "pause" ELSE "play"
  /\ lastArg' = 0
  /\ pre' = State
  /\ run' = IF isPlaying THEN [run EXCEPT !.active = FALSE]
            ELSE [active |-> TRUE, k |-> currentIndex, n |-> 0]
  /\ UNCHANGED <<telemetry, telemetryLength, mounted>>

\* A change of the slider.  Its setCurrentIndex(value) is queued after a
\* waiting updater and decides the index.
SliderChangeQueued ==
  /\ mounted
  /\ \E v \in SeekInputs :
       /\ Commit(handleSliderChange(State, v))
       /\ lastArg' = v
  /\ queued' = FALSE
  /\ lastOp' = "seek"
  /\ pre' = State
  /\ run' = [run EXCEPT !.active = FALSE]
  /\ UNCHANGED <<telemetry, telemetryLength, mounted>>

\* The component is unmounted; a waiting updater is dropped with it.
UnmountQueued ==
  /\ mounted
  /\ mounted' = FALSE
  /\ queued' = FALSE
  /\ Commit(unmountCleanup(State))
  /\ lastOp' = "unmount"
  /\ lastArg' = 0
  /\ pre' = State
  /\ run' = [run EXCEPT !.active = FALSE]
  /\ UNCHANGED <<telemetry, telemetryLength>>

\* The page is rendered for another race: the component gets another
\* telemetry array and computes its outline and its markers from it.
PageRender ==
  /\ telemetry' \in StaticTracks
  /\ telemetryLength' = Len(telemetry')
  /\ UNCHANGED <<currentIndex, isPlaying, intervalRef, timers, mounted,
                 queued, lastOp, lastArg, pre, run>>

InterleavedNext ==
  TimerFire \/ Render \/ PlayPauseQueued \/ SliderChangeQueued
    \/ UnmountQueued

Spec == Init /\ [][Next]_vars

\* The same component mounted with the projection tracks.
ProjectionSpec == InitProjection /\ [][Next]_vars

\* The same component mounted with the speed tracks.
SpeedSpec == InitSpeed /\ [][Next]_vars

\* The component with user events arriving between an interval callback
\* and the render of its updater.
InterleavedSpec == Init /\ [][InterleavedNext]_vars

\* The track map as the page renders it, before any playback: the outline
\* and the start marker of the static component and of the playback
\* component are values of the telemetry array alone.
StaticSpec == InitStatic /\ [][PageRender]_vars

\* An armed repeating timer keeps firing.
LiveSpec == Init /\ [][Next]_vars /\ WF_vars(Tick)

TypeOK ==
  /\ telemetryLength = Len(telemetry)
  /\ currentIndex \in Int
  /\ isPlaying \in BOOLEAN
  /\ intervalRef \in Nat
  /\ mounted \in BOOLEAN
  /\ queued \in BOOLEAN
  /\ lastOp \in {"mount", "play", "pause", "seek", "fire", "tick", "unmount"}

\* C1: in every reachable state a timer handle is present if and only if
\* isPlaying is true, and while the component is mounted a present handle
\* names an armed timer.
C1_TimerIffPlaying ==
  /\ (intervalRef # Null) <=> isPlaying
  /\ (mounted /\ intervalRef # Null) => intervalRef \in timers

\* The auto-stop tick has released the handle and cleared isPlaying.
C1_Witness ==
  /\ lastOp = "tick"
  /\ pre.isPlaying
  /\ pre.intervalRef # Null
  /\ ~isPlaying
  /\ intervalRef = Null

\* C2: for a non-empty sequence currentIndex is an integer in
\* [0, length-1] in every reachable state.
C2_IndexInBounds ==
  telemetryLength > 0 => currentIndex \in 0..(telemetryLength - 1)

\* A tick fired at the last index and the index stayed there.
C2_Witness ==
  /\ lastOp = "tick"
  /\ telemetryLength > 1
  /\ pre.currentIndex = telemetryLength - 1
  /\ currentIndex = telemetryLength - 1

\* C3: at most one repeating timer is armed in every reachable state.
C3_AtMostOneTimer == Cardinality(timers) <= 1

\* Playback was paused part-way and started again: one timer is armed.
C3_Witness ==
  /\ lastOp = "play"
  /\ pre.currentIndex > 0
  /\ pre.currentIndex < telemetryLength - 1
  /\ Cardinality(timers) = 1

\* C4: after a slider change requesting i on a non-empty sequence,
\* currentIndex is 0 when i < 0, length-1 when i > length-1, and i otherwise.
C4_SeekClamps ==
  (lastOp = "seek" /\ telemetryLength > 0) =>
    /\ lastArg < 0 => currentIndex = 0
    /\ lastArg > telemetryLength - 1 => currentIndex = telemetryLength - 1
    /\ (0 <= lastArg /\ lastArg <= telemetryLength - 1) =>
         currentIndex = lastArg

\* Length 10, requested 999, index 9.
C4_Witness ==
  /\ lastOp = "seek"
  /\ telemetryLength = 10
  /\ lastArg = 999
  /\ currentIndex = 9

\* C5: a tick fired at currentIndex = length-1 leaves the index there,
\* cancels the timer and clears isPlaying; while isPlaying is false no step
\* is a tick.
C5_AutoStopRule ==
  /\ [](lastOp = "tick" /\ pre.currentIndex = telemetryLength - 1 =>
          /\ currentIndex = telemetryLength - 1
          /\ intervalRef = Null
          /\ timers = {}
          /\ ~isPlaying)
  /\ [][~isPlaying => lastOp' # "tick"]_vars

\* The auto-stop tick of a sequence that was played through from the start.
C5_Witness ==
  /\ lastOp = "tick"
  /\ telemetryLength > 2
  /\ run.active
  /\ run.k = 0
  /\ run.n = telemetryLength
  /\ pre.currentIndex = telemetryLength - 1
  /\ timers = {}

\* C6: play at currentIndex = length-1 resets the index to 0, so the first
\* tick after it starts from 0 (and moves to 1 when length > 1); play at a
\* smaller index leaves the index unchanged.
C6_RestartFromEnd ==
  /\ (lastOp = "play" /\ telemetryLength > 0
        /\ pre.currentIndex = telemetryLength - 1) => currentIndex = 0
  /\ (lastOp = "play" /\ pre.currentIndex < telemetryLength - 1) =>
       currentIndex = pre.currentIndex
  /\ (lastOp = "tick" /\ run.active /\ run.n = 1
        /\ run.k = telemetryLength - 1) =>
       /\ pre.currentIndex = 0
       /\ telemetryLength > 1 => currentIndex = 1

\* The first tick after a play at the last index of a longer sequence.
C6_Witness ==
  /\ lastOp = "tick"
  /\ run.active
  /\ run.n = 1
  /\ telemetryLength > 2
  /\ run.k = telemetryLength - 1
  /\ currentIndex = 1

\* C7: after play at k < length-1 and n ticks with no pause or seek in
\* between and k+n <= length-1, currentIndex = k+n; a tick below the last
\* index advances currentIndex by exactly 1.
C7_MonotonicPlayback ==
  /\ (run.active /\ run.k < telemetryLength - 1
        /\ run.k + run.n <= telemetryLength - 1) =>
       currentIndex = run.k + run.n
  /\ (lastOp = "tick" /\ pre.currentIndex < telemetryLength - 1) =>
       currentIndex = pre.currentIndex + 1

\* Played from the middle up to the last index.
C7_Witness ==
  /\ lastOp = "tick"
  /\ run.active
  /\ run.k > 0
  /\ run.n >= 2
  /\ run.k + run.n = telemetryLength - 1
  /\ currentIndex = telemetryLength - 1

\* C8: right after a slider change no timer is armed, no handle is held,
\* isPlaying is false and currentIndex is the requested value clamped into
\* [0, length-1].
C8_SeekStops ==
  lastOp = "seek" =>
    /\ timers = {}
    /\ intervalRef = Null
    /\ ~isPlaying
    /\ telemetryLength > 0 =>
         currentIndex = IF lastArg < 0 THEN 0
                        ELSE IF lastArg > telemetryLength - 1
                               THEN telemetryLength - 1
                        ELSE lastArg

\* A slider change while playing.
C8_Witness ==
  /\ lastOp = "seek"
  /\ pre.isPlaying
  /\ pre.timers # {}
  /\ pre.currentIndex # currentIndex
  /\ timers = {}

\* C9: pause cancels the timer, clears isPlaying and leaves currentIndex
\* unchanged; stopPlayback applied to a state that is not playing changes
\* nothing, and applied twice it gives what it gives applied once.
C9_PauseEffect ==
  /\ lastOp = "pause" =>
       /\ timers = {}
       /\ intervalRef = Null
       /\ ~isPlaying
       /\ currentIndex = pre.currentIndex
  /\ ~isPlaying => stopPlayback(State) = State
  /\ stopPlayback(stopPlayback(State)) = stopPlayback(State)

\* A pause in the middle of the sequence.
C9_Witness ==
  /\ lastOp = "pause"
  /\ pre.isPlaying
  /\ pre.timers # {}
  /\ currentIndex > 0
  /\ currentIndex < telemetryLength - 1

\* C10 as stated: isPlaying is false in the state reached by the tick that
\* brings currentIndex to length-1, and it turns true again only by play.
C10_StopsOnArrival ==
  /\ [](lastOp = "tick" /\ pre.currentIndex # currentIndex
          /\ currentIndex = telemetryLength - 1 => ~isPlaying)
  /\ [][(~isPlaying /\ isPlaying') => lastOp' = "play"]_vars

\* C10, amended: the tick that brings currentIndex to length-1 leaves
\* isPlaying true; the next tick, fired at length-1, clears it, and it turns
\* true again only by play.
C10_StopsOnNextTick ==
  /\ [](lastOp = "tick" /\ pre.currentIndex # currentIndex
          /\ currentIndex = telemetryLength - 1 => isPlaying)
  /\ [](lastOp = "tick" /\ pre.currentIndex = telemetryLength - 1 =>
          ~isPlaying)
  /\ [][(~isPlaying /\ isPlaying') => lastOp' = "play"]_vars

\* The index was brought to the last sample by a tick and the next tick
\* stopped playback.
C10_Witness ==
  /\ lastOp = "tick"
  /\ telemetryLength > 1
  /\ run.active
  /\ run.n > 1
  /\ pre.currentIndex = telemetryLength - 1
  /\ pre.isPlaying
  /\ ~isPlaying

\* C11: after the component is unmounted no timer is armed, and no step
\* taken after the unmount is a tick.
C11_UnmountCancelsTimer ==
  /\ [](~mounted => timers = {})
  /\ [][~mounted => lastOp' # "tick"]_vars

\* The component was unmounted while playing.
C11_Witness ==
  /\ ~mounted
  /\ lastOp = "unmount"
  /\ pre.isPlaying
  /\ pre.timers # {}
  /\ timers = {}

C13_AspectPreservation ==
  \A vb \in ViewBoxes :
    LET params == buildNormParams(telemetry, vb.size, vb.padding)
        xs == {telemetry[i].x_coordinate : i \in DOMAIN telemetry}
        ys == {telemetry[i].y_coordinate : i \in DOMAIN telemetry}
        rawX == (CHOOSE v \in xs : \A w \in xs : w <= v)
                  - (CHOOSE v \in xs : \A w \in xs : v <= w)
        rawY == (CHOOSE v \in ys : \A w \in ys : w <= v)
                  - (CHOOSE v \in ys : \A w \in ys : v <= w)
        pxs == {normPoint(telemetry[i], params).x : i \in DOMAIN telemetry}
        pys == {normPoint(telemetry[i], params).y : i \in DOMAIN telemetry}
        projX == Sub(CHOOSE v \in pxs : \A w \in pxs : Leq(w, v),
                     CHOOSE v \in pxs : \A w \in pxs : Leq(v, w))
        projY == Sub(CHOOSE v \in pys : \A w \in pys : Leq(w, v),
                     CHOOSE v \in pys : \A w \in pys : Leq(v, w))
    IN (telemetry # <<>> /\ rawX # 0 /\ rawY # 0) =>
         /\ Mul(projX, Num(rawY)) = Mul(projY, Num(rawX))
         /\ Mul(params.scale, Num(IF rawX >= rawY THEN rawX ELSE rawY)) =
              Num(vb.size - 2 * vb.padding)

\* A track higher than it is wide, with both ranges non-zero.
C13_Witness ==
  /\ Len(telemetry) = 2
  /\ Abs(telemetry[1].x_coordinate - telemetry[2].x_coordinate) = 1
  /\ Abs(telemetry[1].y_coordinate - telemetry[2].y_coordinate) = 3

\* C14 as stated: in every playback state the marker's projected position
\* is the outline's vertex for sample currentIndex.
C14_MarkerIsVertex ==
  HasCurrent =>
    /\ carPos.x = Hundredths(pathData[currentIndex + 1].x)
    /\ carPos.y = Hundredths(pathData[currentIndex + 1].y)

\* C14, amended: the marker's projected position written with two decimals
\* is the outline's vertex for sample currentIndex; each coordinate of the
\* marker is within 0.005 of the vertex's.
C14_MarkerRoundsToVertex ==
  HasCurrent =>
    LET v == pathData[currentIndex + 1]
    IN /\ toFixed2(carPos.x) = v.x
       /\ toFixed2(carPos.y) = v.y
       /\ Leq(Sub(carPos.x, Hundredths(v.x)), Rat(1, 200))
       /\ Leq(Sub(Hundredths(v.x), carPos.x), Rat(1, 200))
       /\ Leq(Sub(carPos.y, Hundredths(v.y)), Rat(1, 200))
       /\ Leq(Sub(Hundredths(v.y), carPos.y), Rat(1, 200))

\* Playback has advanced to a sample whose projection has more than two
\* decimals.
C14_Witness ==
  /\ lastOp = "tick"
  /\ currentIndex >= 1
  /\ HasCurrent
  /\ carPos.x # Hundredths(pathData[currentIndex + 1].x)

\* C15 as stated: on each axis the smallest and the largest projected
\* coordinate are symmetric about S/2; a single sample projects to
\* (S/2, S/2).
C15_Centred ==
  \A vb \in ViewBoxes :
    LET params == buildNormParams(telemetry, vb.size, vb.padding)
        pxs == {normPoint(telemetry[i], params).x : i \in DOMAIN telemetry}
        pys == {normPoint(telemetry[i], params).y : i \in DOMAIN telemetry}
    IN telemetry # <<>> =>
         /\ Add(CHOOSE v \in pxs : \A w \in pxs : Leq(w, v),
                CHOOSE v \in pxs : \A w \in pxs : Leq(v, w)) = Num(vb.size)
         /\ Add(CHOOSE v \in pys : \A w \in pys : Leq(w, v),
                CHOOSE v \in pys : \A w \in pys : Leq(v, w)) = Num(vb.size)

\* C19: the progress is 100 * currentIndex / (length-1) percent when
\* length > 1 and 0 when length <= 1, and lies between 0 and 100.
C19_ProgressFraction ==
  /\ telemetryLength > 1 =>
       Mul(progress, Num(telemetryLength - 1)) = Num(100 * currentIndex)
  /\ telemetryLength <= 1 => progress = Num(0)
  /\ Leq(Num(0), progress)
  /\ Leq(progress, Num(100))

\* A third of the way through a sequence of four samples.
C19_Witness ==
  /\ telemetryLength = 4
  /\ lastOp = "tick"
  /\ currentIndex = 1
  /\ progress = Rat(100, 3)

\* C16: with an empty sequence the controller never plays and never arms
\* a timer, and a click on play/pause changes nothing.
C16_EmptyIsNoOp ==
  telemetryLength = 0 =>
    /\ ~isPlaying
    /\ timers = {}
    /\ intervalRef = Null
    /\ currentIndex = 0
    /\ lastOp = "play" => State = pre

\* Play/pause was clicked on an empty sequence.
C16_Witness ==
  /\ telemetryLength = 0
  /\ lastOp = "play"
  /\ pre = State

\* C17: a click while playing has the effect of pause (timer cancelled,
\* isPlaying false, index kept); a click while not playing has the effect
\* of play (index reset to 0 when at the last index, isPlaying true and one
\* timer armed and held; nothing on an empty sequence).
C17_ToggleEffect ==
  /\ lastOp = "pause" =>
       /\ pre.isPlaying
       /\ ~isPlaying
       /\ timers = {}
       /\ intervalRef = Null
       /\ currentIndex = pre.currentIndex
  /\ lastOp = "play" =>
       /\ ~pre.isPlaying
       /\ currentIndex = IF pre.currentIndex >= telemetryLength - 1
                           THEN 0 ELSE pre.currentIndex
       /\ telemetryLength > 0 =>
            /\ isPlaying
            /\ intervalRef # Null
            /\ timers = {intervalRef}
       /\ telemetryLength = 0 => State = pre

\* A click while stopped at the end restarted playback from the start.
C17_Witness ==
  /\ lastOp = "play"
  /\ telemetryLength > 1
  /\ ~pre.isPlaying
  /\ pre.currentIndex = telemetryLength - 1
  /\ currentIndex = 0
  /\ isPlaying

\* C18 as stated: in every state of a mounted, non-empty sequence a play
\* step is possible and leads to isPlaying with an armed timer.
C18_PlayAlwaysAvailable ==
  /\ lastOp = "mount" => (currentIndex = 0 /\ ~isPlaying /\ timers = {})
  /\ (mounted /\ telemetryLength > 0) =>
       ENABLED (PlayPause /\ lastOp' = "play" /\ isPlaying' /\ timers' # {})

\* C18, amended: in every state of a mounted, non-empty sequence that is
\* not playing a play step is possible and leads to isPlaying with an armed
\* timer; in a playing state the click is a pause, which leads to such a
\* state.
C18_PlayAvailableWhenStopped ==
  /\ lastOp = "mount" => (currentIndex = 0 /\ ~isPlaying /\ timers = {})
  /\ (mounted /\ telemetryLength > 0 /\ ~isPlaying) =>
       ENABLED (PlayPause /\ lastOp' = "play" /\ isPlaying' /\ timers' # {})
  /\ (mounted /\ telemetryLength > 0 /\ isPlaying) =>
       ENABLED (PlayPause /\ lastOp' = "pause" /\ ~isPlaying')

\* Stopped at the end by the auto-stop tick, still mounted.
C18_Witness ==
  /\ mounted
  /\ telemetryLength > 1
  /\ lastOp = "tick"
  /\ ~isPlaying
  /\ currentIndex = telemetryLength - 1
  /\ ENABLED (PlayPause /\ isPlaying' /\ currentIndex' = 0)

\* C20: with the timer firing for as long as it is armed, every playing
\* state of a non-empty sequence leads to the stop at the last index, or to
\* a pause, a slider change or the unmount.
C20_PlaybackTerminates ==
  (isPlaying /\ telemetryLength > 0) ~>
    \/ (currentIndex = telemetryLength - 1 /\ ~isPlaying /\ timers = {})
    \/ lastOp \in {"pause", "seek", "unmount"}

\* Playback started in the middle has stopped by itself at the last index.
C20_Witness ==
  /\ lastOp = "tick"
  /\ run.active
  /\ run.k > 0
  /\ run.k < telemetryLength - 1
  /\ currentIndex = telemetryLength - 1
  /\ ~isPlaying
  /\ timers = {}

\* C21: when minSpeed = maxSpeed over the whole sequence, t is 0 for every
\* sample and every sample gets the one colour rgb(30,120,255), the divisor
\* being 1 and not 0; for any speed, inside or outside the recorded range,
\* t lies in [0, 1] and the colour of the current sample is that of its t.
C21_DegenerateSpeedRange ==
  telemetry # <<>> =>
    /\ minSpeed = maxSpeed =>
         /\ OrOne(Num(maxSpeed - minSpeed)) = Num(1)
         /\ \A i \in DOMAIN telemetry :
              /\ speedT(telemetry[i].speed, minSpeed, maxSpeed) = Num(0)
              /\ speedColor(telemetry[i].speed, minSpeed, maxSpeed) =
                   [r |-> 30, g |-> 120, b |-> 255]
    /\ \A speed \in SpeedInputs :
         /\ Leq(Num(0), speedT(speed, minSpeed, maxSpeed))
         /\ Leq(speedT(speed, minSpeed, maxSpeed), Num(1))
    /\ \A speed \in SpeedInputs :
         speed <= minSpeed => speedT(speed, minSpeed, maxSpeed) = Num(0)
    /\ \A speed \in SpeedInputs :
         (speed >= maxSpeed /\ minSpeed < maxSpeed) =>
           speedT(speed, minSpeed, maxSpeed) = Num(1)

\* Playback has advanced through a sequence whose samples all have speed
\* 200, and the readout has the colour of t = 0.
C21_Witness ==
  /\ lastOp = "tick"
  /\ telemetryLength >= 2
  /\ currentIndex >= 1
  /\ HasCurrent
  /\ minSpeed = 200
  /\ maxSpeed = 200
  /\ currentSpeedColor = [r |-> 30, g |-> 120, b |-> 255]

\* C22 as stated: while isPlaying is false the index changes only by a
\* slider change or a play, under every interleaving of interval callbacks
\* with clicks and slider changes; an updater that was already waiting when
\* the timer is or was cancelled never advances the index.
C22_NoTickWhileStopped ==
  /\ [][(~isPlaying /\ lastOp' \notin {"seek", "play"}) =>
         currentIndex' = currentIndex]_vars
  /\ [][(queued /\ timers' = {} /\ lastOp' # "seek") =>
         currentIndex' = currentIndex]_vars

\* C23 as stated: for a non-empty sequence the static component's outline
\* vertices and its start marker are the coordinates buildNormParams and
\* normPoint give, and in both components the start marker is the first
\* vertex of the outline.
C23_SameCoordinates ==
  telemetry # <<>> =>
    /\ \A i \in DOMAIN telemetry :
         /\ Hundredths(staticPathData[i].x) =
              normPoint(telemetry[i], normParams).x
         /\ Hundredths(staticPathData[i].y) =
              normPoint(telemetry[i], normParams).y
    /\ staticStartMarker = startPos
    /\ staticStartMarker.x = Hundredths(staticPathData[1].x)
    /\ staticStartMarker.y = Hundredths(staticPathData[1].y)
    /\ startPos.x = Hundredths(pathData[1].x)
    /\ startPos.y = Hundredths(pathData[1].y)

\* C23, amended: for a non-empty sequence the static component's outline
\* is the playback component's outline (the coordinates of buildNormParams
\* and normPoint written with two decimals), for every drawing square; its
\* start marker is the playback component's startPos; and the start marker
\* (the same in both components) written with two decimals is the first
\* vertex of the outline (the same in both components), each coordinate
\* within 0.005 of the vertex's.
C23_SameProjection ==
  telemetry # <<>> =>
    /\ \A vb \in ViewBoxes :
         staticBuildPathData(telemetry, vb.size, vb.padding) =
           buildPathData(telemetry,
                         buildNormParams(telemetry, vb.size, vb.padding))
    /\ \A outline \in {pathData} :
         /\ staticPathData = outline
         /\ \A marker \in {startPos} :
              /\ staticStartMarker = marker
              /\ toFixed2(marker.x) = outline[1].x
              /\ toFixed2(marker.y) = outline[1].y
              /\ Leq(Sub(marker.x, Hundredths(outline[1].x)), Rat(1, 200))
              /\ Leq(Sub(Hundredths(outline[1].x), marker.x), Rat(1, 200))
              /\ Leq(Sub(marker.y, Hundredths(outline[1].y)), Rat(1, 200))
              /\ Leq(Sub(Hundredths(outline[1].y), marker.y), Rat(1, 200))

\* A track whose first sample is projected to a coordinate with more than
\* two decimals: the two start markers agree and differ from the vertex
\* as written in the outline.
C23_Witness ==
  /\ Len(telemetry) >= 2
  /\ staticStartMarker = startPos
  /\ staticPathData = pathData
  /\ staticStartMarker.y # Hundredths(staticPathData[1].y)
  /\ toFixed2(staticStartMarker.y) = staticPathData[1].y

====
